---- MODULE Spec2Model ----
(***************************************************************************)
(* Liveliness / borrow-flag protocol of wlroots-rs Resources and Handles   *)
(* (TabletPad / TabletPadHandle, Output / OutputHandle).                   *)
(*                                                                         *)
(* Every Resource owns an Rc<Cell<bool>>; every Handle owns a Weak to it.  *)
(* A "cell" below is one such Rc allocation: strong[c] is its strong       *)
(* count, flag[c] the bool it holds.  The program is single threaded, so   *)
(* its position is the stack of run closures that are executing.           *)
(***************************************************************************)
EXTENDS Naturals, Sequences, FiniteSets, Bags

\* ---------------------------------------------------------------- bounds
NumCells == 1      \* Resources constructed over one behaviour
NumAddrs == 1      \* distinct native addresses
MaxHandles == 2    \* Handles created over one behaviour
MaxDepth == 2      \* nesting depth of run closures
MaxHeld == 1       \* Resources held by crate-internal code (upgrade / clone)
NumPair == 2       \* Resources constructed, and native addresses, over one behaviour of SpecPair
NumLayoutPair == 2 \* output layouts created over one behaviour of SpecLayouts

\* ------------------------------------------------------------- constants
NoCell == 0        \* Weak::new(): a Weak that never resolves
NullPtr == 0       \* ptr::null_mut()
NoLayout == 0      \* OutputState.layout_handle is None
NumLayouts == 1    \* the compositor creates one output layout (OutputLayout::create)

MaxCells == IF NumPair > NumCells THEN NumPair ELSE NumCells
Cells == 1..MaxCells
PairAddrs == 1..NumPair
Addrs == 1..NumAddrs
MaxLayouts == IF NumLayoutPair > NumLayouts THEN NumLayoutPair ELSE NumLayouts
Layouts == 1..MaxLayouts
OutLayouts == 1..NumLayouts
Kinds == {"pad", "output"}
Values == {"value", "error"}      \* what a closure returns (R may be a Result)
Payloads == {"boom"}              \* what a closure panics with
DeviceTypes == {"keyboard", "pointer", "touch", "tablet_tool", "tablet_pad"}   \* wlr_input_device_type
Listeners == {"destroy", "button", "ring", "strip"}   \* wl_listeners of a TabletPadWrapper

VARIABLES
    ncells,     \* number of liveliness cells allocated so far
    kind,       \* kind[c]: "pad" or "output"
    ptr,        \* ptr[c]: native address the owning Resource of c wraps
    owner,      \* owner[c]: the bridge-owned Resource of c exists
    strong,     \* strong[c]: Rc::strong_count of the cell
    flag,       \* flag[c]: the Cell<bool>
    dropped,    \* dropped[c]: times the real-destruction branch of Drop ran
    handles,    \* bag of the Handles that exist; a Handle is its fields [cell, ptr]
    stack,      \* frames of the run calls in progress: [self, cell, ptr]
    held,       \* Resources held outside run: [cell, ptr, via]
    res,        \* the last Handle operation: [op, cell, out, val]
    fatal,      \* the "Lock in incorrect state!" panic was raised
    unreg,      \* unreg[c][l]: times wl_list_remove ran on listener l of the wrapper of c
    freed,      \* freed[c]: times the wrapper allocation of c was released
    notified,   \* notified[c]: a destruction notification of c was delivered
    invoked,    \* the handler callbacks the last event notification called: <<[cb, self]>>
    lstate,     \* lstate[L]: output layout L is "none", "live", "busy" (in a run) or "dead"
    lmembers,   \* lmembers[L]: the outputs layout L lists
    lhandle,    \* lhandle[c]: OutputState.layout_handle of output c
    boxfreed,   \* boxfreed[c]: times the OutputState box of c was freed
    lpanic,     \* lpanic[c]: remove_from_output_layout panicked for output c
    unlisted,   \* unlisted[c]: the teardown of output c took it out of a layout
    moved,      \* moved[c]: set_output_layout took output c out of its previous layout
    slot        \* slot[c]: (*output).data of output c: "null", "box" (the OutputState
                \* allocation, owned by the slot), "taken" (owned by a Box), "freed"

padVars == <<unreg, freed, notified, invoked>>

outVars == <<lstate, lmembers, lhandle, boxfreed, lpanic, unlisted, moved, slot>>

vars == <<ncells, kind, ptr, owner, strong, flag, dropped, handles, stack, held, res, fatal,
          unreg, freed, notified, invoked, lstate, lmembers, lhandle, boxfreed, lpanic, unlisted, moved,
          slot>>

NoRes == [op |-> "none", cell |-> NoCell, out |-> "none", val |-> "none"]

Init ==
    /\ ncells = 0
    /\ kind = [c \in Cells |-> "pad"]
    /\ ptr = [c \in Cells |-> NullPtr]
    /\ owner = [c \in Cells |-> FALSE]
    /\ strong = [c \in Cells |-> 0]
    /\ flag = [c \in Cells |-> FALSE]
    /\ dropped = [c \in Cells |-> 0]
    /\ handles = EmptyBag
    /\ stack = <<>>
    /\ held = <<>>
    /\ res = NoRes
    /\ fatal = FALSE
    /\ unreg = [c \in Cells |-> [l \in Listeners |-> 0]]
    /\ freed = [c \in Cells |-> 0]
    /\ notified = [c \in Cells |-> FALSE]
    /\ invoked = <<>>
    /\ lstate = [L \in Layouts |-> "none"]
    /\ lmembers = [L \in Layouts |-> {}]
    /\ lhandle = [c \in Cells |-> NoLayout]
    /\ boxfreed = [c \in Cells |-> 0]
    /\ lpanic = [c \in Cells |-> FALSE]
    /\ unlisted = [c \in Cells |-> FALSE]
    /\ moved = [c \in Cells |-> FALSE]
    /\ slot = [c \in Cells |-> "null"]

\* The Handles user code can reach: the ones it stored and the ones that are
\* arguments of the calls in progress
Handles == BagToSet(handles) \cup {stack[i].self : i \in 1..Len(stack)}

\* mutant: a Handle that keeps the cell alive, so its weak pointer always resolves
ResolvesAlways(h) == h.cell # NoCell

\* mutant: a Handle resolves when a Resource lives at its native address
ResolvesByAddress(h) == \E c \in Cells : strong[c] > 0 /\ ptr[c] = h.ptr

\* Weak::upgrade() on the Handle's weak pointer returns Some
Resolves(h) == h.cell # NoCell /\ strong[h.cell] > 0

\* mutant: Drop without the strong_count test
DropIsRealAlways(cnt) == TRUE

\* Drop for TabletPad / Output: the teardown branch runs iff strong_count == 1
DropIsReal(cnt) == cnt = 1

\* Box::from_raw((*output).data): a Box takes the allocation out of the slot
TakeBox(sl, c) == [sl EXCEPT ![c] = "taken"]

\* (*output).data = Box::into_raw(..): the slot owns the allocation
PutBox(sl, c) == [sl EXCEPT ![c] = "box"]

\* user_data.is_null()
UserDataIsNull(c) == slot[c] = "null"

\* mutant: no Box::into_raw, the Box frees the allocation when the function ends
SlotAfterTakeOnly(c) ==
    IF UserDataIsNull(c) THEN slot ELSE [TakeBox(slot, c) EXCEPT ![c] = "freed"]

\* The slot after a function took the state box of output c, changed it and
\* handed it back (set_output_layout, clear_output_layout_data, from_ptr)
SlotAfterRoundTrip(c) == IF UserDataIsNull(c) THEN slot ELSE PutBox(TakeBox(slot, c), c)

\* Rc::new(Cell::new(false)): what the cell of a new Resource holds
FreshFlag == FALSE

\* A Resource of kind k is built around native address a, the n-th of the
\* behaviour at most: a fresh cell, of which the Resource is the one strong
\* holder.  Native code never has two objects at one address.
ConstructUpTo(n, a, k) ==
    /\ ncells < n
    /\ \A c \in Cells : owner[c] => ptr[c] # a
    /\ ncells = 0 => a = 1
    /\ LET c == ncells + 1 IN
        /\ ncells' = c
        /\ kind' = [kind EXCEPT ![c] = k]
        /\ ptr' = [ptr EXCEPT ![c] = a]
        /\ owner' = [owner EXCEPT ![c] = TRUE]
        /\ strong' = [strong EXCEPT ![c] = 1]
        /\ flag' = [flag EXCEPT ![c] = FreshFlag]
        /\ slot' = IF k = "output" THEN PutBox(slot, c) ELSE slot
    /\ UNCHANGED <<dropped, handles, stack, held, fatal, padVars,
                   lstate, lmembers, lhandle, boxfreed, lpanic, unlisted, moved>>

\* The construction of a Resource in a program with NumCells native objects
Construct(a, k) == ConstructUpTo(NumCells, a, k)

\* Output::new / TabletPad::new_from_input_device on a tablet pad, in a
\* program that has several native objects
NewResourcePair(a, k) ==
    /\ ConstructUpTo(NumPair, a, k)
    /\ res' = res

\* Output::new (and the pad built by the bridge, seen from outside)
NewResource(a, k) ==
    /\ Construct(a, k)
    /\ res' = res

\* mutant: every input device is wrapped
IsTabletPadAny(t) == TRUE

\* match (*device).type_ : the WLR_INPUT_DEVICE_TABLET_PAD arm
IsTabletPad(t) == t = "tablet_pad"

\* TabletPad::new_from_input_device on a device of type t at address a
NewFromInputDevice(a, t) ==
    IF IsTabletPad(t)
    THEN /\ Construct(a, "pad")
         /\ res' = [op |-> "new", cell |-> ncells + 1, out |-> "Some", val |-> "none"]
    ELSE /\ res' = [op |-> "new", cell |-> NoCell, out |-> "None", val |-> "none"]
         /\ UNCHANGED <<ncells, kind, ptr, owner, strong, flag, dropped, handles, stack, held,
                        fatal, padVars, outVars>>

\* TabletPad::weak_reference / Output::weak_reference on any Resource of cell c
WeakReference(c) ==
    /\ strong[c] > 0
    /\ BagCardinality(handles) < MaxHandles
    /\ handles' = handles (+) SetToBag({[cell |-> c, ptr |-> ptr[c]]})
    /\ UNCHANGED <<ncells, kind, ptr, owner, strong, flag, dropped, stack, held, res, fatal, padVars, outVars>>

\* mutant: new() builds the Handle around the weak pointer of a real resource
HandleNewLive ==
    /\ BagCardinality(handles) < MaxHandles
    /\ handles' = handles (+) SetToBag({[cell |-> 1, ptr |-> NullPtr]})
    /\ UNCHANGED <<ncells, kind, ptr, owner, strong, flag, dropped, stack, held, res, fatal, padVars, outVars>>

\* TabletPadHandle::new / OutputHandle::new / Default
HandleNew ==
    /\ BagCardinality(handles) < MaxHandles
    /\ handles' = handles (+) SetToBag({[cell |-> NoCell, ptr |-> NullPtr]})
    /\ UNCHANGED <<ncells, kind, ptr, owner, strong, flag, dropped, stack, held, res, fatal, padVars, outVars>>

\* impl Clone for TabletPadHandle / #[derive(Clone)] OutputHandle
CloneHandle(h) ==
    /\ BagCardinality(handles) < MaxHandles
    /\ handles' = handles (+) SetToBag({[cell |-> h.cell, ptr |-> h.ptr]})
    /\ UNCHANGED <<ncells, kind, ptr, owner, strong, flag, dropped, stack, held, res, fatal, padVars, outVars>>

\* mutant: the Resource is rebuilt around a null pointer, not the Handle's
FromHandleNull(h) == [cell |-> h.cell, ptr |-> NullPtr]

\* TabletPad::from_handle / Output::from_handle: the Resource rebuilt from a
\* Handle that resolves (it takes one more strong reference to the cell)
FromHandle(h) == [cell |-> h.cell, ptr |-> h.ptr]

\* mutant: the flag is never seen as set
BorrowedNever(h) == FALSE

\* mutant: one flag for all resources
BorrowedAny(h) == \E c \in Cells : flag[c]

\* check.get() in upgrade
Borrowed(h) == flag[h.cell]

\* mutant: upgrade without the check.get() test
UpgradeOutcomeUnchecked(h) == IF ~Resolves(h) THEN "AlreadyDropped" ELSE "Ok"

\* What Handle::upgrade returns
UpgradeOutcome(h) ==
    IF ~Resolves(h) THEN "AlreadyDropped"
    ELSE IF Borrowed(h) THEN "AlreadyBorrowed"
    ELSE "Ok"

\* Strong count of the Handle's cell while upgrade holds both `check` and the
\* Resource built by from_handle
StrongInUpgrade(h) == strong[h.cell] + 2

\* mutant: `check` is kept alive by a successful upgrade
StrongAfterUpgradeLeak(h) ==
    IF UpgradeOutcome(h) = "Ok" THEN StrongInUpgrade(h) ELSE StrongInUpgrade(h) - 2

\* Strong count of the Handle's cell once upgrade has returned: `check` is
\* always dropped, the Resource only on the AlreadyBorrowed path
StrongAfterUpgrade(h) ==
    IF UpgradeOutcome(h) = "Ok" THEN StrongInUpgrade(h) - 1
    ELSE StrongInUpgrade(h) - 2

\* mutant: upgrade succeeds without setting the flag
FlagNotSet(h) == flag

\* check.set(true) on the success path of upgrade
FlagAfterUpgrade(h) ==
    IF UpgradeOutcome(h) = "Ok" THEN [flag EXCEPT ![h.cell] = TRUE] ELSE flag

\* The state part of Handle::upgrade, shared by upgrade and run
UpgradeStep(h) ==
    /\ flag' = FlagAfterUpgrade(h)
    /\ strong' = IF Resolves(h)
                 THEN [strong EXCEPT ![h.cell] = StrongAfterUpgrade(h)]
                 ELSE strong
    /\ dropped' = IF UpgradeOutcome(h) = "AlreadyBorrowed" /\ DropIsReal(StrongInUpgrade(h))
                  THEN [dropped EXCEPT ![h.cell] = @ + 1]
                  ELSE dropped

\* Handle::upgrade called directly by crate-internal code, which keeps the Resource
Upgrade(h) ==
    /\ UpgradeOutcome(h) = "Ok" => Len(held) < MaxHeld
    /\ UpgradeStep(h)
    /\ held' = IF UpgradeOutcome(h) = "Ok"
               THEN Append(held, [cell |-> FromHandle(h).cell, ptr |-> FromHandle(h).ptr,
                                  via |-> "upgrade"])
               ELSE held
    /\ res' = [op |-> "upgrade", cell |-> h.cell, out |-> UpgradeOutcome(h), val |-> "none"]
    /\ UNCHANGED <<ncells, kind, ptr, owner, handles, stack, fatal, padVars, outVars>>

\* Output::clone (crate-internal): one more Resource sharing the cell
CloneResource(c) ==
    /\ Len(held) < MaxHeld
    /\ kind[c] = "output"
    /\ strong[c] > 0
    /\ strong' = [strong EXCEPT ![c] = @ + 1]
    /\ held' = Append(held, [cell |-> c, ptr |-> ptr[c], via |-> "clone"])
    /\ UNCHANGED <<ncells, kind, ptr, owner, flag, dropped, handles, stack, res, fatal, padVars, outVars>>

RemoveAt(s, i) == [j \in 1..(Len(s) - 1) |-> IF j < i THEN s[j] ELSE s[j + 1]]

\* What run on a Handle to layout L returns before it calls its closure
LayoutRunOutcome(L) ==
    IF lstate[L] \in {"none", "dead"} THEN "AlreadyDropped"
    ELSE IF lstate[L] = "busy" THEN "AlreadyBorrowed"
    ELSE "Ok"

\* mutant: a layout that is checked out is an error the caller gets back
RemoveReturnsError(c) == FALSE

\* Output::remove_from_output_layout on output c panics: the stored layout
\* handle is checked out
RemovePanics(c) ==
    lhandle[c] # NoLayout /\ LayoutRunOutcome(lhandle[c]) = "AlreadyBorrowed"

\* mutant: teardown leaves the Output in the listing of its layout
MembersKept(c) == lmembers

\* The listings after Output::remove_from_output_layout on output c:
\* layout.remove(self) runs when the stored handle upgrades
MembersAfterRemove(c) ==
    IF lhandle[c] # NoLayout /\ LayoutRunOutcome(lhandle[c]) = "Ok"
    THEN [lmembers EXCEPT ![lhandle[c]] = @ \ {c}]
    ELSE lmembers

\* layout_handle of output c after Output::remove_from_output_layout:
\* take() empties it, clear_output_layout_data writes None
HandleAfterRemove(c) == NoLayout

\* The slot after Output::remove_from_output_layout on output c:
\* clear_output_layout_data hands the state box back unless the call panicked
SlotAfterRemove(c) ==
    IF lhandle[c] # NoLayout /\ ~RemovePanics(c) THEN SlotAfterRoundTrip(c) ELSE slot

\* mutant: Drop releases the borrow
FlagAfterDropReset(c, fl) == [fl EXCEPT ![c] = FALSE]

\* The flags after Drop for TabletPad / Output ran on a Resource of cell c
\* that is not the last strong holder: drop does not write the Cell<bool>
FlagAfterDrop(c, fl) == fl

\* Drop of a Resource of cell c, the flags being fl when it is dropped: the
\* teardown branch, then the Rc field.  With the last strong holder the
\* Cell<bool> and the Resource's fields cease to exist; the model forgets them.
DropResource(c, fl) ==
    /\ dropped' = IF DropIsReal(strong[c]) THEN [dropped EXCEPT ![c] = @ + 1] ELSE dropped
    /\ IF DropIsReal(strong[c]) /\ kind[c] = "output"
       THEN /\ lmembers' = MembersAfterRemove(c)
            /\ lhandle' = [lhandle EXCEPT ![c] = HandleAfterRemove(c)]
            /\ lpanic' = [lpanic EXCEPT ![c] = @ \/ RemovePanics(c)]
            /\ boxfreed' = IF RemovePanics(c) THEN boxfreed ELSE [boxfreed EXCEPT ![c] = @ + 1]
            /\ unlisted' = [unlisted EXCEPT ![c] = @ \/ (c \in UNION {lmembers[L] : L \in Layouts}
                                                          /\ MembersAfterRemove(c) # lmembers)]
            /\ slot' = IF RemovePanics(c) THEN SlotAfterRemove(c)
                        ELSE [TakeBox(SlotAfterRemove(c), c) EXCEPT ![c] = "freed"]
       ELSE UNCHANGED <<lmembers, lhandle, lpanic, boxfreed, unlisted, slot>>
    /\ strong' = [strong EXCEPT ![c] = @ - 1]
    /\ flag' = IF strong[c] = 1 THEN [fl EXCEPT ![c] = FALSE] ELSE FlagAfterDrop(c, fl)
    /\ ptr' = IF strong[c] = 1 THEN [ptr EXCEPT ![c] = NullPtr] ELSE ptr
    /\ kind' = kind

\* crate-internal code lets go of a Resource it got from upgrade or clone
DropHeld(i) ==
    /\ i \in 1..Len(held)
    /\ DropResource(held[i].cell, flag)
    /\ held' = RemoveAt(held, i)
    /\ UNCHANGED <<ncells, owner, handles, stack, res, fatal, padVars, lstate, moved>>

\* The bridge drops the owning Resource (destruction of the native object)
DropOwner(c) ==
    /\ owner[c]
    /\ kind[c] = "output"
    /\ owner' = [owner EXCEPT ![c] = FALSE]
    /\ DropResource(c, flag)
    /\ UNCHANGED <<ncells, handles, stack, held, res, fatal, padVars, lstate, moved>>

\* mutant: run without the `?`, the closure is called whatever upgrade returned
RunBeginUnchecked(h) ==
    /\ Len(stack) < MaxDepth
    /\ UpgradeStep(h)
    /\ stack' = Append(stack, [self |-> h, cell |-> FromHandle(h).cell,
                               ptr |-> FromHandle(h).ptr])
    /\ res' = [op |-> "run", cell |-> h.cell,
               out |-> IF UpgradeOutcome(h) = "Ok" THEN "running" ELSE UpgradeOutcome(h),
               val |-> "none"]
    /\ UNCHANGED <<ncells, kind, ptr, owner, handles, held, fatal, padVars, outVars>>

\* Handle::run up to the call of the closure: `self.upgrade()?`
RunBegin(h) ==
    /\ UpgradeOutcome(h) = "Ok" => Len(stack) < MaxDepth
    /\ UpgradeStep(h)
    /\ stack' = IF UpgradeOutcome(h) = "Ok"
                THEN Append(stack, [self |-> h, cell |-> FromHandle(h).cell,
                                    ptr |-> FromHandle(h).ptr])
                ELSE stack
    /\ res' = [op |-> "run", cell |-> h.cell,
               out |-> IF UpgradeOutcome(h) = "Ok" THEN "running" ELSE UpgradeOutcome(h),
               val |-> "none"]
    /\ UNCHANGED <<ncells, kind, ptr, owner, handles, held, fatal, padVars, outVars>>

\* mutant: no catch_unwind, a panic of the closure skips the code after it
ReleaseOnReturnOnly(how) == how = "return"

\* panic::catch_unwind around the closure: the code after it runs whether the
\* closure returned ("return") or panicked ("panic")
ReleaseReached(how) == how \in {"return", "panic"}

\* The sanity check after the closure: !check.get()
LockLost(c) == ~flag[c]

\* mutant: the flag is not cleared after the closure
FlagAfterRunKept(c) == flag

\* check.set(false) after the closure
FlagAfterRun(c) == [flag EXCEPT ![c] = FALSE]

\* mutant: run flattens the closure's value, an error value becomes an error of run
RunOutcomeFlattened(how, v) ==
    IF how = "panic" THEN "Panic" ELSE IF v = "error" THEN "Err" ELSE "Ok"

\* The `match res` that ends run: Ok(res) => Ok(res), Err(err) => resume_unwind(err)
RunOutcome(how, v) == IF how = "panic" THEN "Panic" ELSE "Ok"

\* Handle::run from the end of the closure of the innermost run to its return
RunFinish(how, v) ==
    /\ stack # <<>>
    /\ stack[Len(stack)].cell # NoCell
    /\ LET f == stack[Len(stack)]
           c == f.self.cell
           checks == ReleaseReached(how) /\ Resolves(f.self)
           lost == checks /\ LockLost(c)
       IN /\ fatal' = (fatal \/ lost)
          /\ DropResource(f.cell, IF checks /\ ~lost THEN FlagAfterRun(c) ELSE flag)
          /\ res' = [op |-> "run", cell |-> c,
                     out |-> IF lost THEN "Fatal"
                             ELSE IF DropIsReal(strong[f.cell]) /\ kind[f.cell] = "output"
                                     /\ RemovePanics(f.cell) THEN "DropPanic"
                             ELSE RunOutcome(how, v),
                     val |-> IF lost THEN "none" ELSE v]
    /\ stack' = SubSeq(stack, 1, Len(stack) - 1)
    /\ UNCHANGED <<ncells, owner, handles, held, padVars, lstate, moved>>

RunReturn(v) == RunFinish("return", v)

RunPanic(p) == RunFinish("panic", p)

\* mutant: the accessor goes through upgrade and fails on a checked out flag
InputDeviceOutcomeViaUpgrade(h) == UpgradeOutcome(h)

\* What TabletPadHandle::input_device returns: match self.handle.upgrade()
InputDeviceOutcome(h) == IF Resolves(h) THEN "Ok" ELSE "AlreadyDropped"

\* TabletPadHandle::input_device
InputDevice(h) ==
    /\ h.cell # NoCell => kind[h.cell] = "pad"
    /\ res' = [op |-> "input_device", cell |-> h.cell,
               out |-> InputDeviceOutcome(h), val |-> "none"]
    /\ UNCHANGED <<ncells, kind, ptr, owner, strong, flag, dropped, handles, stack, held, fatal, padVars, outVars>>

\* mutant: Handles compare equal only while their resource is alive
HandleEqWhileAlive(h1, h2) == h1.ptr = h2.ptr /\ Resolves(h1) /\ Resolves(h2)

\* impl PartialEq for TabletPadHandle / OutputHandle: the native pointers
HandleEq(h1, h2) == h1.ptr = h2.ptr

\* impl Hash for TabletPadHandle: what hash writes to the Hasher, the native
\* pointer and nothing else
HandleHash(h) == <<h.ptr>>

\* Handles h1 and h2 are of one type (TabletPadHandle or OutputHandle)
SameType(h1, h2) ==
    IF h1.cell = NoCell \/ h2.cell = NoCell THEN TRUE ELSE kind[h1.cell] = kind[h2.cell]

\* h1 and h2 are TabletPadHandles, the Handles that implement Hash
Hashable(h1, h2) ==
    /\ IF h1.cell = NoCell THEN TRUE ELSE kind[h1.cell] = "pad"
    /\ IF h2.cell = NoCell THEN TRUE ELSE kind[h2.cell] = "pad"

\* user code compares two Handles it has with == and, for TabletPadHandles,
\* their hashes
Compare(h1, h2) ==
    /\ SameType(h1, h2)
    /\ res' = [op |-> "eq", cell |-> h1.cell,
               out |-> IF HandleEq(h1, h2) THEN "equal" ELSE "unequal",
               val |-> IF ~Hashable(h1, h2) THEN "none"
                       ELSE IF HandleHash(h1) = HandleHash(h2) THEN "same hash"
                       ELSE "other hash"]
    /\ UNCHANGED <<ncells, kind, ptr, owner, strong, flag, dropped, handles, stack, held, fatal, padVars, outVars>>

\* The wl_listener l of the wrapper of pad c is linked into its native signal;
\* the wrapper owns the TabletPad (this.data)
Registered(c, l) == owner[c] /\ kind[c] = "pad" /\ unreg[c][l] = 0

\* a call of on_destroy_notify for pad c is in progress (in its callback)
InDestroy(c) ==
    \E i \in 1..Len(stack) : stack[i].cell = NoCell /\ stack[i].self.cell = c

\* compositor_handle() gave None: on_destroy_notify returns at once
ReturnsEarly(comp) == ~comp

\* mutant: the listeners are unlinked before the destroyed callback is called
UnregFirst(c) == [unreg EXCEPT ![c] = [l \in Listeners |-> @[l] + 1]]

\* Listeners on_destroy_notify has unlinked when it calls the destroyed callback
UnregBeforeCallback(c) == unreg

\* on_destroy_notify for pad c up to the call of the destroyed callback, which
\* gets pad.weak_reference(); comp: compositor_handle() is Some
DestroyBegin(c, comp) ==
    /\ Registered(c, "destroy")
    /\ ~InDestroy(c)
    /\ ~ReturnsEarly(comp) => Len(stack) < MaxDepth
    /\ notified' = [notified EXCEPT ![c] = TRUE]
    /\ unreg' = IF ReturnsEarly(comp) THEN unreg ELSE UnregBeforeCallback(c)
    /\ stack' = IF ReturnsEarly(comp)
                THEN stack
                ELSE Append(stack, [self |-> [cell |-> c, ptr |-> ptr[c]],
                                    cell |-> NoCell, ptr |-> NullPtr])
    /\ UNCHANGED <<ncells, kind, ptr, owner, strong, flag, dropped, handles, held, res,
                   fatal, freed, invoked, outVars>>

\* on_destroy_notify from the return of the destroyed callback: the four
\* wl_list_remove calls, then Box::from_raw releases the wrapper, which drops
\* the TabletPad it owns
DestroyFinish ==
    /\ stack # <<>>
    /\ stack[Len(stack)].cell = NoCell
    /\ LET c == stack[Len(stack)].self.cell IN
        /\ unreg' = [unreg EXCEPT ![c] = [l \in Listeners |-> @[l] + 1]]
        /\ freed' = [freed EXCEPT ![c] = @ + 1]
        /\ owner' = [owner EXCEPT ![c] = FALSE]
        /\ DropResource(c, flag)
    /\ stack' = SubSeq(stack, 1, Len(stack) - 1)
    /\ UNCHANGED <<ncells, handles, held, res, fatal, notified, invoked, lstate, moved>>

\* mutant: the ring and the strip listeners call each other's callback
CallbackSwapped(l) ==
    IF l = "button" THEN "on_button" ELSE IF l = "strip" THEN "on_ring" ELSE "on_strip"

\* The TabletPadHandler method the notify function of listener l calls
CallbackFor(l) ==
    IF l = "button" THEN "on_button" ELSE IF l = "strip" THEN "on_strip" ELSE "on_ring"

\* The calls button_notify / strip_notify / ring_notify of pad c makes to the
\* handler: none when compositor_handle() is None, else the one callback,
\* with pad.weak_reference()
CallbacksInvoked(c, l, comp) ==
    IF ReturnsEarly(comp) THEN <<>>
    ELSE <<[cb |-> CallbackFor(l), self |-> [cell |-> c, ptr |-> ptr[c]]]>>

\* button_notify / strip_notify / ring_notify of the wrapper of pad c: an
\* event of listener l is delivered; comp: compositor_handle() is Some
EventNotify(c, l, comp) ==
    /\ l \in Listeners \ {"destroy"}
    /\ Registered(c, l)
    /\ invoked' = CallbacksInvoked(c, l, comp)
    /\ UNCHANGED <<ncells, kind, ptr, owner, strong, flag, dropped, handles, stack, held, res,
                   fatal, unreg, freed, notified, outVars>>

\* The steps of the bridge of a tablet pad and of a program that runs on it
NextEvents ==
    \/ \E a \in Addrs, t \in DeviceTypes : NewFromInputDevice(a, t)
    \/ \E c \in Cells : WeakReference(c)
    \/ \E h \in Handles : RunBegin(h)
    \/ \E v \in Values : RunReturn(v)
    \/ \E c \in Cells, l \in Listeners, comp \in BOOLEAN : EventNotify(c, l, comp)
    \/ \E c \in Cells, comp \in BOOLEAN : DestroyBegin(c, comp)
    \/ DestroyFinish

SpecEvents == Init /\ [][NextEvents]_vars

\* The steps of a program with several native objects that runs on them,
\* compares their Handles and sees them destroyed
NextPair ==
    \/ \E a \in PairAddrs, k \in Kinds : NewResourcePair(a, k)
    \/ \E c \in Cells : WeakReference(c)
    \/ \E h \in Handles : RunBegin(h)
    \/ \E v \in Values : RunReturn(v)
    \/ \E c \in Cells : DropOwner(c)
    \/ \E c \in Cells : DestroyBegin(c, TRUE)
    \/ DestroyFinish
    \/ \E h1 \in Handles, h2 \in Handles : Compare(h1, h2)

SpecPair == Init /\ [][NextPair]_vars

Next ==
    \/ \E a \in Addrs : NewResource(a, "output")
    \/ \E a \in Addrs, t \in DeviceTypes : NewFromInputDevice(a, t)
    \/ \E c \in Cells : WeakReference(c)
    \/ HandleNew
    \/ \E h \in Handles : CloneHandle(h)
    \/ \E h \in Handles : Upgrade(h)
    \/ \E c \in Cells : CloneResource(c)
    \/ \E i \in 1..Len(held) : DropHeld(i)
    \/ \E c \in Cells : DropOwner(c)
    \/ \E h \in Handles : RunBegin(h)
    \/ \E v \in Values : RunReturn(v)
    \/ \E p \in Payloads : RunPanic(p)
    \/ \E h \in Handles : InputDevice(h)
    \/ \E h1 \in Handles, h2 \in Handles : Compare(h1, h2)
    \/ \E c \in Cells, comp \in BOOLEAN : DestroyBegin(c, comp)
    \/ DestroyFinish

Spec == Init /\ [][Next]_vars

\* OutputLayout::create: layout L comes into existence
LayoutCreate(L) ==
    /\ lstate[L] = "none"
    /\ \A K \in Layouts : K < L => lstate[K] # "none"
    /\ lstate' = [lstate EXCEPT ![L] = "live"]
    /\ UNCHANGED <<ncells, kind, ptr, owner, strong, flag, dropped, handles, stack, held, res,
                   fatal, padVars, lmembers, lhandle, boxfreed, lpanic, unlisted, moved, slot>>

\* run on a Handle to layout L, up to the call of its closure
LayoutRunBegin(L) ==
    /\ LayoutRunOutcome(L) = "Ok"
    /\ lstate' = [lstate EXCEPT ![L] = "busy"]
    /\ UNCHANGED <<ncells, kind, ptr, owner, strong, flag, dropped, handles, stack, held, res,
                   fatal, padVars, lmembers, lhandle, boxfreed, lpanic, unlisted, moved, slot>>

\* run on a Handle to layout L, from the end of its closure
LayoutRunEnd(L) ==
    /\ lstate[L] = "busy"
    /\ lstate' = [lstate EXCEPT ![L] = "live"]
    /\ UNCHANGED <<ncells, kind, ptr, owner, strong, flag, dropped, handles, stack, held, res,
                   fatal, padVars, lmembers, lhandle, boxfreed, lpanic, unlisted, moved, slot>>

\* The layout is destroyed: its listing goes with it, the handles Outputs
\* stored to it stay behind and no longer upgrade
LayoutDrop(L) ==
    /\ lstate[L] = "live"
    /\ lstate' = [lstate EXCEPT ![L] = "dead"]
    /\ lmembers' = [lmembers EXCEPT ![L] = {}]
    /\ UNCHANGED <<ncells, kind, ptr, owner, strong, flag, dropped, handles, stack, held, res,
                   fatal, padVars, lhandle, boxfreed, lpanic, unlisted, moved, slot>>

\* Output::set_output_layout(Some(handle to L)) on output c: first
\* remove_from_output_layout, which may panic, then the handle is stored
SetOutputLayout(c, L) ==
    /\ lpanic' = [lpanic EXCEPT ![c] = @ \/ RemovePanics(c)]
    /\ lhandle' = [lhandle EXCEPT ![c] = IF RemovePanics(c) THEN HandleAfterRemove(c) ELSE L]
    /\ slot' = IF RemovePanics(c) THEN slot ELSE SlotAfterRoundTrip(c)

\* Output::clear_output_layout_data on output c
ClearOutputLayoutData(c) ==
    /\ lhandle' = [lhandle EXCEPT ![c] = IF UserDataIsNull(c) THEN @ ELSE NoLayout]
    /\ slot' = SlotAfterRoundTrip(c)

\* OutputLayout::remove on layout L, inside a run on it, with output c: the
\* native listing drops the output, then Output::clear_output_layout_data
LayoutRemove(L, c) ==
    /\ lstate[L] = "busy"
    /\ c \in lmembers[L]
    /\ strong[c] > 0
    /\ lmembers' = [lmembers EXCEPT ![L] = @ \ {c}]
    /\ ClearOutputLayoutData(c)
    /\ UNCHANGED <<ncells, kind, ptr, owner, strong, flag, dropped, handles, stack, held, res,
                   fatal, padVars, lstate, boxfreed, lpanic, unlisted, moved>>

\* OutputHandle::from_ptr on the native output of cell c, which exists as
\* long as the bridge owns its Output: the Handle rebuilt from the state box
FromPtr(c) ==
    /\ owner[c]
    /\ kind[c] = "output"
    /\ ~UserDataIsNull(c)
    /\ BagCardinality(handles) < MaxHandles
    /\ handles' = handles (+) SetToBag({[cell |-> c, ptr |-> ptr[c]]})
    /\ slot' = SlotAfterRoundTrip(c)
    /\ UNCHANGED <<ncells, kind, ptr, owner, strong, flag, dropped, stack, held, res, fatal,
                   padVars, lstate, lmembers, lhandle, boxfreed, lpanic, unlisted, moved>>

\* OutputLayout::add on layout L, inside a run on it, with output c: the
\* native listing takes the output, then Output::set_output_layout
LayoutAdd(L, c) ==
    /\ lstate[L] = "busy"
    /\ kind[c] = "output"
    /\ strong[c] > 0
    /\ lmembers' = [K \in Layouts |->
                        IF K = L THEN MembersAfterRemove(c)[K] \cup {c}
                        ELSE MembersAfterRemove(c)[K]]
    /\ SetOutputLayout(c, L)
    /\ moved' = [moved EXCEPT ![c] = @ \/ MembersAfterRemove(c) # lmembers]
    /\ UNCHANGED <<ncells, kind, ptr, owner, strong, flag, dropped, handles, stack, held, res,
                   fatal, padVars, lstate, boxfreed, unlisted>>

\* The steps of a program that works with Outputs and output layouts
NextOut ==
    \/ \E a \in Addrs : NewResource(a, "output")
    \/ \E c \in Cells : WeakReference(c)
    \/ \E c \in Cells : CloneResource(c)
    \/ \E i \in 1..Len(held) : DropHeld(i)
    \/ \E c \in Cells : DropOwner(c)
    \/ \E h \in Handles : Upgrade(h)
    \/ \E h \in Handles : RunBegin(h)
    \/ \E v \in Values : RunReturn(v)
    \/ \E p \in Payloads : RunPanic(p)
    \/ \E L \in OutLayouts : LayoutCreate(L)
    \/ \E L \in Layouts : LayoutRunBegin(L)
    \/ \E L \in Layouts : LayoutRunEnd(L)
    \/ \E L \in Layouts : LayoutDrop(L)
    \/ \E L \in Layouts, c \in Cells : LayoutAdd(L, c)
    \/ \E L \in Layouts, c \in Cells : LayoutRemove(L, c)
    \/ \E c \in Cells : FromPtr(c)

SpecOut == Init /\ [][NextOut]_vars

\* The steps of a program that moves its Outputs between several output
\* layouts: no Handles to the Outputs, layouts created up to NumLayoutPair
NextLayouts ==
    \/ \E a \in Addrs : NewResource(a, "output")
    \/ \E c \in Cells : DropOwner(c)
    \/ \E L \in Layouts : LayoutCreate(L)
    \/ \E L \in Layouts : LayoutRunBegin(L)
    \/ \E L \in Layouts : LayoutRunEnd(L)
    \/ \E L \in Layouts : LayoutDrop(L)
    \/ \E L \in Layouts, c \in Cells : LayoutAdd(L, c)
    \/ \E L \in Layouts, c \in Cells : LayoutRemove(L, c)

SpecLayouts == Init /\ [][NextLayouts]_vars

\* The steps of a program that uses the public interface only: no direct
\* upgrade and no Output::clone, which are pub(crate)
NextPublic ==
    \/ \E a \in Addrs : NewResource(a, "output")
    \/ \E a \in Addrs, t \in DeviceTypes : NewFromInputDevice(a, t)
    \/ \E c \in Cells : WeakReference(c)
    \/ HandleNew
    \/ \E h \in Handles : CloneHandle(h)
    \/ \E c \in Cells : DropOwner(c)
    \/ \E h \in Handles : RunBegin(h)
    \/ \E v \in Values : RunReturn(v)
    \/ \E p \in Payloads : RunPanic(p)
    \/ \E h \in Handles : InputDevice(h)
    \/ \E h1 \in Handles, h2 \in Handles : Compare(h1, h2)
    \/ \E c \in Cells, comp \in BOOLEAN : DestroyBegin(c, comp)
    \/ DestroyFinish

SpecPublic == Init /\ [][NextPublic]_vars

\* ------------------------------------------------------------ vocabulary
\* Resources of cell c that came out of a successful upgrade and still exist:
\* the temporaries of the runs in progress and the ones crate code holds
UpgradedCount(c) ==
    Cardinality({i \in 1..Len(stack) : stack[i].cell = c})
    + Cardinality({i \in 1..Len(held) : held[i].cell = c /\ held[i].via = "upgrade"})

\* Resources of cell c that exist besides the owning one
OtherResources(c) ==
    Cardinality({i \in 1..Len(stack) : stack[i].cell = c})
    + Cardinality({i \in 1..Len(held) : held[i].cell = c})

\* a run on cell c is on the call stack
InRun(c) == \E i \in 1..Len(stack) : stack[i].cell = c

\* cell c was allocated and its owning Resource has been dropped
Destroyed(c) == c \in 1..ncells /\ ~owner[c]

Top == stack[Len(stack)]

\* C3 (Release correctness): when a run whose upgrade step succeeded returns,
\* whatever value its closure returned, the flag is free, and if the resource
\* has not been destroyed the next run through any Handle to it succeeds.
C3_ReleaseCorrectness ==
    /\ [][\A v \in Values : RunReturn(v) =>
            (~flag'[Top.cell] /\ res'.out = "Ok" /\ res'.val = v)]_vars
    /\ [][\A h \in Handles :
            (RunBegin(h) /\ res.op = "run" /\ res.out = "Ok" /\ res.cell = h.cell
             /\ owner[h.cell])
            => (res'.out = "running" /\ stack' = Append(stack, [self |-> h, cell |-> h.cell, ptr |-> h.ptr]))]_vars

\* a run whose closure returned an error value has returned; the resource is
\* alive and free, and a Handle and a clone of it exist to run on next
C3_Witness ==
    /\ res.op = "run" /\ res.out = "Ok" /\ res.val = "error"
    /\ owner[res.cell]
    /\ ~flag[res.cell]
    /\ \E h \in Handles : h.cell = res.cell /\ CopiesIn(h, handles) >= 2

C5_NestedPanics ==
    [][\A v \in Values :
        (RunReturn(v) /\ res.op \in {"run", "upgrade"} /\ res.out = "AlreadyBorrowed"
         /\ res.cell = Top.cell)
        => res'.out \in {"Fatal", "Panic"}]_vars

\* C6 (Guaranteed release on fault): when the closure panics, the flag is
\* freed, run re-raises that same panic (no HandleErr, no fatal check), and a
\* later run on the still live resource succeeds.
C6_ReleaseOnPanic ==
    /\ [][\A p \in Payloads : RunPanic(p) =>
            (~flag'[Top.cell] /\ res'.out = "Panic" /\ res'.val = p /\ fatal' = fatal)]_vars
    /\ [][\A h \in Handles :
            (RunBegin(h) /\ res.op = "run" /\ res.out = "Panic" /\ res.cell = h.cell
             /\ owner[h.cell])
            => res'.out = "running"]_vars

\* a run re-raised its closure's panic and left a live resource free
C6_Witness ==
    /\ res.op = "run" /\ res.out = "Panic" /\ res.val \in Payloads
    /\ owner[res.cell] /\ ~flag[res.cell]
    /\ ~InRun(res.cell)

C8_UpgradeOutcome ==
    [][\A h \in Handles : Upgrade(h) =>
        IF h.cell = NoCell \/ strong[h.cell] = 0
        THEN res'.out = "AlreadyDropped" /\ flag' = flag /\ held' = held
        ELSE IF flag[h.cell]
        THEN res'.out = "AlreadyBorrowed" /\ flag' = flag /\ held' = held
        ELSE /\ res'.out = "Ok"
             /\ flag' = [flag EXCEPT ![h.cell] = TRUE]
             /\ held' = Append(held, [cell |-> h.cell, ptr |-> h.ptr, via |-> "upgrade"])
             /\ h.ptr = ptr[h.cell]]_vars

\* an upgrade succeeded and its Resource, with the address of the native
\* object, is held
C8_Witness ==
    /\ res.op = "upgrade" /\ res.out = "Ok"
    /\ flag[res.cell]
    /\ \E i \in 1..Len(held) :
        held[i] = [cell |-> res.cell, ptr |-> ptr[res.cell], via |-> "upgrade"]

ResourceCount(c) == (IF owner[c] THEN 1 ELSE 0) + OtherResources(c)

\* C11, as stated: at most one Resource instance exists per native identity
\* at any time, the owning Resource and the one rebuilt by upgrade both
\* counted, also during a run.
C11_AsClaimed == \A c \in Cells : (IF owner[c] THEN 1 ELSE 0) + UpgradedCount(c) <= 1

\* C11, amended: per native identity there is at most one owning Resource and
\* at most one Resource rebuilt by upgrade, so a tablet pad has at most two
\* Resource instances, and exactly two while a run is in progress on a pad
\* whose owning Resource exists (Output::clone adds further instances).
C11_Instances ==
    \A c \in Cells :
        /\ UpgradedCount(c) <= 1
        /\ ResourceCount(c) <= 2 + Cardinality({i \in 1..Len(held) : held[i].cell = c /\ held[i].via = "clone"})
        /\ (c \in 1..ncells /\ kind[c] = "pad") => ResourceCount(c) <= 2
        /\ (owner[c] /\ InRun(c)) => ResourceCount(c) >= 2

\* a run is in progress on a tablet pad whose owning Resource exists, and a
\* second run on it has just been refused: two Resource instances
C11_Witness ==
    \E c \in Cells :
        /\ kind[c] = "pad" /\ owner[c] /\ InRun(c)
        /\ ResourceCount(c) = 2
        /\ res.op = "run" /\ res.out = "AlreadyBorrowed" /\ res.cell = c

\* C12, as stated: dropping the Resource a successful upgrade produced
\* resets the flag to free.
C12_AsClaimed ==
    [][\A i \in 1..Len(held) :
        (DropHeld(i) /\ held[i].via = "upgrade") => ~flag'[held[i].cell]]_vars

\* C12, amended: the release is made by run, not by the drop.  Every run
\* whose upgrade succeeded frees the flag when it ends, by return or by panic;
\* dropping a Resource that is not the last strong holder leaves the flag as
\* it is, so a Resource crate code took by a direct upgrade leaves the flag
\* set when it is dropped, the flag stays set as long as the cell lives, and
\* upgrade and run keep returning AlreadyBorrowed.
C12_ReleaseByRun ==
    /\ [][\A v \in Values \cup Payloads :
            (RunReturn(v) \/ RunPanic(v)) => ~flag'[Top.cell]]_vars
    /\ [][\A i \in 1..Len(held) :
            (DropHeld(i) /\ strong[held[i].cell] > 1)
            => flag'[held[i].cell] = flag[held[i].cell]]_vars
    /\ [][\A c \in Cells :
            (flag[c] /\ UpgradedCount(c) = 0 /\ strong'[c] > 0) => flag'[c]]_vars
    /\ [][\A h \in Handles :
            ((RunBegin(h) \/ Upgrade(h)) /\ h.cell # NoCell /\ strong[h.cell] > 0
             /\ flag[h.cell] /\ UpgradedCount(h.cell) = 0)
            => res'.out = "AlreadyBorrowed"]_vars

\* the Resource of a direct upgrade was dropped and a run on the live
\* resource was then refused with AlreadyBorrowed, no upgraded Resource existing
C12_Witness ==
    /\ res.op = "run" /\ res.out = "AlreadyBorrowed"
    /\ res.cell # NoCell
    /\ owner[res.cell] /\ flag[res.cell]
    /\ UpgradedCount(res.cell) = 0

\* on_destroy_notify was called for pad c and has returned
HandlerReturned(c) == notified[c] /\ ~InDestroy(c)

\* C13, as stated: after the destruction-notification handler of a tablet pad
\* has returned, no Handle resolves the flag of that pad, whether or not a
\* compositor handle was available.
C13_DeadAfterHandler == \A c \in Cells : HandlerReturned(c) => strong[c] = 0

\* C14, as stated: on every destruction notification of a tablet pad each of
\* the four subscriptions is unregistered exactly once and the wrapper is
\* released exactly once, on every path through the handler.
C14_TornDownOnce ==
    \A c \in Cells :
        HandlerReturned(c) => (freed[c] = 1 /\ \A l \in Listeners : unreg[c][l] = 1)

\* the destroyed callback of pad c is the innermost call in progress
CallbackOnTop(c) ==
    /\ stack # <<>>
    /\ Top.cell = NoCell
    /\ Top.self.cell = c

\* C15, as stated: the destroyed callback is called before any subscription
\* is unregistered and before the wrapper is released, and while it executes
\* input_device and run on the Handle of the dying pad succeed.
C15_AsClaimed ==
    /\ [](\A c \in Cells : InDestroy(c) =>
            (owner[c] /\ freed[c] = 0 /\ \A l \in Listeners : unreg[c][l] = 0))
    /\ [][\A h \in Handles :
            (h.cell # NoCell /\ CallbackOnTop(h.cell)) =>
                /\ InputDevice(h) => res'.out = "Ok"
                /\ RunBegin(h) => res'.out = "running"]_vars

\* C15, amended: the destroyed callback is called before any subscription is
\* unregistered and before the wrapper is released; while it executes the
\* Handle still resolves: input_device succeeds, and run succeeds when the
\* flag is free and returns AlreadyBorrowed (never AlreadyDropped) when a run
\* on the pad was in progress at the time the notification arrived.
C15_CallbackFirst ==
    /\ [](\A c \in Cells : InDestroy(c) =>
            (owner[c] /\ strong[c] > 0 /\ freed[c] = 0 /\ \A l \in Listeners : unreg[c][l] = 0))
    /\ [][\A h \in Handles :
            (h.cell # NoCell /\ CallbackOnTop(h.cell)) =>
                /\ InputDevice(h) => res'.out = "Ok"
                /\ RunBegin(h) =>
                     res'.out = IF InRun(h.cell) THEN "AlreadyBorrowed" ELSE "running"]_vars

\* the destroyed callback of a pad is executing and, inside it, a run on the
\* Handle to that pad is in progress; nothing has been torn down
C15_Witness ==
    /\ Len(stack) >= 2
    /\ stack[1].cell = NoCell
    /\ stack[2].cell = stack[1].self.cell
    /\ stack[2].self = stack[1].self
    /\ res.op = "run" /\ res.out = "running"
    /\ freed[stack[2].cell] = 0 /\ unreg[stack[2].cell]["destroy"] = 0

\* C16, as stated: two destruction notifications for one native identity
\* never unregister a subscription twice nor release the wrapper twice, and
\* the second notification changes nothing.
C16_SecondIsNoOp ==
    /\ [](\A c \in Cells : freed[c] <= 1 /\ \A l \in Listeners : unreg[c][l] <= 1)
    /\ [][\A c \in Cells, comp \in BOOLEAN :
            (DestroyBegin(c, comp) /\ notified[c]) => stack' = stack]_vars
    /\ [][\A c \in Cells :
            (notified[c] /\ HandlerReturned(c)) =>
                (unreg'[c] = unreg[c] /\ freed'[c] = freed[c] /\ owner'[c] = owner[c])]_vars

\* C19, as stated: whenever the destroyed callback of a native object is
\* called no run on that object is in progress and the flag is free.
C19_AsClaimed ==
    [][\A c \in Cells : DestroyBegin(c, TRUE) => (~flag[c] /\ ~InRun(c))]_vars

\* C19, amended: the handler neither waits for a run nor reads or writes
\* the flag.  Under the public interface the destroyed callback finds the
\* flag free exactly when no run on the object is on the call stack; called
\* from inside a run closure on that object it finds the flag set, and run
\* on its Handle returns AlreadyBorrowed.
C19_FlagAtCallback ==
    /\ [][\A c \in Cells : DestroyBegin(c, TRUE) =>
            ((flag[c] <=> InRun(c)) /\ flag' = flag)]_vars
    /\ [][\A h \in Handles :
            (RunBegin(h) /\ h.cell # NoCell /\ CallbackOnTop(h.cell) /\ InRun(h.cell))
            => (res'.out = "AlreadyBorrowed" /\ stack' = stack)]_vars

\* the destroyed callback of a pad was called from inside a run closure on
\* that pad, and a run on its Handle was refused with AlreadyBorrowed
C19_Witness ==
    /\ Len(stack) >= 2
    /\ stack[1].cell # NoCell
    /\ CallbackOnTop(stack[1].cell)
    /\ flag[stack[1].cell]
    /\ res.op = "run" /\ res.out = "AlreadyBorrowed" /\ res.cell = stack[1].cell

\* C20: a Handle built by new() or Default (the Handles with a null native
\* pointer), and every clone of it, is invalid in every state: upgrade, run
\* and input_device on it return AlreadyDropped, no closure is called and
\* nothing changes.
C20_NewIsInvalid ==
    [][\A h \in Handles :
        (h.ptr = NullPtr /\ (Upgrade(h) \/ RunBegin(h) \/ InputDevice(h)))
        => (/\ res'.out = "AlreadyDropped"
            /\ stack' = stack /\ held' = held
            /\ flag' = flag /\ strong' = strong)]_vars

\* run on a Handle built by new(), of which a clone exists, was refused with
\* AlreadyDropped while a resource was alive and free
C20_Witness ==
    /\ res.op = "run" /\ res.out = "AlreadyDropped" /\ res.cell = NoCell
    /\ CopiesIn([cell |-> NoCell, ptr |-> NullPtr], handles) >= 2
    /\ \E c \in Cells : owner[c] /\ ~flag[c]

\* output c was constructed and every Resource of it has been dropped
DeadOutput(c) == c \in 1..ncells /\ kind[c] = "output" /\ strong[c] = 0

C21_RunReturnsValue ==
    /\ [][\A h \in Handles :
            (RunBegin(h) /\ h.cell # NoCell /\ strong[h.cell] > 0 /\ ~flag[h.cell])
            => (/\ res'.out = "running"
                /\ stack' = Append(stack, [self |-> h, cell |-> h.cell, ptr |-> h.ptr])
                /\ h.ptr = ptr[h.cell])]_vars
    /\ [][\A v \in Values :
            RunReturn(v) =>
                (/\ res' = [op |-> "run", cell |-> Top.self.cell, out |-> "Ok", val |-> v]
                 /\ Len(stack') = Len(stack) - 1)]_vars

\* a run on a live tablet pad has returned the error value of its closure as
\* a success; no call is in progress any more and the pad was not torn down
C21_Witness ==
    /\ res.op = "run" /\ res.out = "Ok" /\ res.val = "error"
    /\ stack = <<>>
    /\ kind[res.cell] = "pad" /\ owner[res.cell]
    /\ dropped[res.cell] = 0

\* C22: input_device on a Handle returns AlreadyDropped exactly when the
\* flag of its resource no longer resolves, and succeeds otherwise: with the
\* owning Resource alive it succeeds, inside or outside a run and whatever
\* the flag holds; it changes neither the flag nor the strong count and calls
\* no closure.
C22_InputDevice ==
    [][\A h \in Handles : InputDevice(h) =>
        /\ res'.out \in {"Ok", "AlreadyDropped"}
        /\ res'.out = "AlreadyDropped" <=> (h.cell = NoCell \/ strong[h.cell] = 0)
        /\ (h.cell # NoCell /\ owner[h.cell]) => res'.out = "Ok"
        /\ (h.cell # NoCell /\ Destroyed(h.cell) /\ OtherResources(h.cell) = 0)
            => res'.out = "AlreadyDropped"
        /\ flag' = flag /\ strong' = strong /\ stack' = stack /\ held' = held]_vars

\* input_device succeeded on a Handle to a pad that is checked out by a run
\* in progress, and the flag is still set
C22_Witness ==
    /\ res.op = "input_device" /\ res.out = "Ok"
    /\ InRun(res.cell)
    /\ flag[res.cell] /\ owner[res.cell]

\* C23: two Handles compare equal iff their native pointers are equal, equal
\* TabletPadHandles hash equally, and no step of the program (checking the
\* flag out, releasing it, destroying the resource) changes either result for
\* two given Handles.
C23_EqByAddress ==
    /\ [][\A h1 \in Handles, h2 \in Handles : Compare(h1, h2) =>
            /\ res'.out = "equal" <=> h1.ptr = h2.ptr
            /\ res'.out \in {"equal", "unequal"}
            /\ (res'.out = "equal" /\ Hashable(h1, h2)) => res'.val = "same hash"]_vars
    /\ [][\A h1 \in Handles, h2 \in Handles :
            /\ HandleEq(h1, h2)' = HandleEq(h1, h2)
            /\ HandleHash(h1)' = HandleHash(h1)]_vars

\* a Handle to a tablet pad that was destroyed for good was just found equal
\* to a Handle with the same native pointer, with the same hash
C23_Witness ==
    /\ res.op = "eq" /\ res.out = "equal" /\ res.val = "same hash"
    /\ res.cell # NoCell
    /\ Destroyed(res.cell) /\ strong[res.cell] = 0

\* C24: new_from_input_device yields a TabletPad iff the device's type is
\* tablet pad and no resource, with nothing changed, for every other type;
\* the cell of a freshly constructed Resource, pad or output, holds false and
\* has exactly one strong holder.
C24_TypedConstruction ==
    /\ [][\A a \in Addrs, t \in DeviceTypes : NewFromInputDevice(a, t) =>
            IF t = "tablet_pad"
            THEN /\ res'.out = "Some"
                 /\ ncells' = ncells + 1
                 /\ kind'[ncells'] = "pad" /\ ptr'[ncells'] = a /\ owner'[ncells']
            ELSE /\ res'.out = "None"
                 /\ ncells' = ncells /\ owner' = owner /\ strong' = strong /\ flag' = flag]_vars
    /\ [][ncells' # ncells =>
            LET c == ncells + 1 IN
                /\ ncells' = c
                /\ ~flag'[c] /\ strong'[c] = 1 /\ owner'[c]
                /\ OtherResources(c)' = 0]_vars

\* a device that is not a tablet pad was refused after a tablet pad had been
\* wrapped
C24_Witness ==
    /\ res.op = "new" /\ res.out = "None"
    /\ \E c \in 1..ncells : kind[c] = "pad" /\ owner[c]

C26_AsClaimed ==
    [][\A c \in Cells, l \in Listeners, comp \in BOOLEAN :
        EventNotify(c, l, comp) =>
            (/\ Len(invoked') = 1
             /\ invoked'[1].cb = CallbackFor(l)
             /\ invoked'[1].self = [cell |-> c, ptr |-> ptr[c]])]_vars

\* C26, amended: when a compositor handle is available, a button, strip or
\* ring event makes the bridge call on_button, on_strip or on_ring
\* respectively, that callback only and once, with a Handle to the pad of the
\* event, before the notification returns; without a compositor handle the
\* notification returns without calling any callback.  Either way the
\* notification itself changes nothing of the pad.
C26_MatchingCallback ==
    [][\A c \in Cells, l \in Listeners, comp \in BOOLEAN :
        EventNotify(c, l, comp) =>
            /\ comp => (/\ Len(invoked') = 1
                        /\ invoked'[1].cb = (CASE l = "button" -> "on_button"
                                               [] l = "strip" -> "on_strip"
                                               [] l = "ring" -> "on_ring")
                        /\ invoked'[1].self.cell = c
                        /\ invoked'[1].self.ptr = ptr[c] /\ ptr[c] # NullPtr
                        /\ Resolves(invoked'[1].self))
            /\ ~comp => invoked' = <<>>
            /\ strong' = strong /\ flag' = flag /\ owner' = owner /\ unreg' = unreg]_vars

\* a strip event was delivered while a run on the pad was in progress and
\* on_strip was called
C26_Witness ==
    /\ Len(invoked) = 1
    /\ invoked[1].cb = "on_strip"
    /\ InRun(invoked[1].self.cell)
    /\ owner[invoked[1].self.cell]

\* C27 (documented panic): weak_reference called inside a run closure, on the
\* Resource the run got from upgrade, panics: it yields no Handle.
C27_WeakReferencePanics ==
    [][\A c \in Cells :
        (WeakReference(c) /\ stack # <<>> /\ Top.cell = c) => handles' = handles]_vars

\* runs on cell c that have passed their upgrade step and have not returned
RunsInProgress(c) == Cardinality({i \in 1..Len(stack) : stack[i].cell = c})

\* C28 (flag meaning): under the public interface the flag of a resource
\* whose cell is alive is true iff exactly one run on it is in progress, never
\* more than one run on it is in progress, and the flag is false whenever no
\* run on it is on the call stack.
C28_FlagMeaning ==
    \A c \in Cells :
        /\ RunsInProgress(c) <= 1
        /\ strong[c] > 0 => (flag[c] <=> RunsInProgress(c) = 1)
        /\ ~InRun(c) => ~flag[c]

\* a run is in progress on a live resource, its flag is set, and a second
\* run attempted from the closure was refused
C28_Witness ==
    /\ Len(stack) = 1
    /\ Top.cell # NoCell
    /\ flag[Top.cell] /\ owner[Top.cell]
    /\ RunsInProgress(Top.cell) = 1
    /\ res = [op |-> "run", cell |-> Top.cell, out |-> "AlreadyBorrowed", val |-> "none"]

\* C29: an upgrade that returns AlreadyBorrowed or AlreadyDropped, called
\* directly or as the first step of run, leaves the flags and the strong
\* counts as they were, yields no Resource and calls no closure; the drop of
\* the Resource it built before the AlreadyBorrowed check runs no teardown.
C29_FailedUpgrade ==
    [][\A h \in Handles :
        ((Upgrade(h) \/ RunBegin(h)) /\ res'.out \in {"AlreadyBorrowed", "AlreadyDropped"})
        => (/\ flag' = flag /\ strong' = strong
            /\ dropped' = dropped /\ boxfreed' = boxfreed /\ slot' = slot
            /\ owner' = owner /\ ptr' = ptr
            /\ stack' = stack /\ held' = held)]_vars

\* a direct upgrade made inside a run closure on the same resource was
\* refused: the owning Resource and the run's temporary are the two strong
\* holders, the flag is set and nothing was torn down
C29_Witness ==
    /\ res.op = "upgrade" /\ res.out = "AlreadyBorrowed"
    /\ res.cell # NoCell
    /\ InRun(res.cell) /\ flag[res.cell]
    /\ strong[res.cell] = 2 /\ dropped[res.cell] = 0

\* the owning Resource of cell c was dropped while a run on c was in progress,
\* and that run has not ended
Window(c) == c \in 1..ncells /\ ~owner[c] /\ InRun(c)

C31_Independent ==
    /\ [][\A h \in Handles : RunBegin(h) =>
            /\ \A c \in Cells : c # h.cell => (flag'[c] = flag[c] /\ strong'[c] = strong[c])
            /\ res'.out = IF h.cell = NoCell THEN "AlreadyDropped"
                          ELSE IF strong[h.cell] = 0 THEN "AlreadyDropped"
                          ELSE IF flag[h.cell] THEN "AlreadyBorrowed"
                          ELSE "running"]_vars
    /\ [][\A v \in Values : RunReturn(v) =>
            \A c \in Cells : c # Top.cell => (flag'[c] = flag[c] /\ strong'[c] = strong[c])]_vars
    /\ [][\A c \in Cells :
            (DropOwner(c) \/ (DestroyFinish /\ Top.self.cell = c)) =>
                \A h \in Handles : h.cell # c => UpgradeOutcome(h)' = UpgradeOutcome(h)]_vars

\* a run on one resource is in progress inside the closure of a run on
\* another resource: both flags are set, the inner run was not refused
C31_Witness ==
    /\ Len(stack) = 2
    /\ stack[1].cell # NoCell /\ stack[2].cell # NoCell
    /\ stack[1].cell # stack[2].cell
    /\ flag[stack[1].cell] /\ flag[stack[2].cell]
    /\ res = [op |-> "run", cell |-> stack[2].cell, out |-> "running", val |-> "none"]

\* h1 is a Handle to a native object that was destroyed, h2 a Handle to the
\* Resource constructed later at the same native address
Stale(h1, h2) ==
    /\ h1.cell # NoCell /\ h2.cell # NoCell
    /\ h1.cell < h2.cell
    /\ h1.ptr = h2.ptr
    /\ Destroyed(h1.cell) /\ owner[h2.cell]

ListedIn(c) == {L \in Layouts : c \in lmembers[L]}

RemovesFromLayout(c) ==
    \/ \E K \in Layouts : LayoutAdd(K, c)
    \/ DropOwner(c) /\ DropIsReal(strong[c])

\* C33: remove_from_output_layout on an Output that stores a layout handle,
\* in set_output_layout as in the teardown: if the layout exists and is not
\* checked out, the Output leaves its listing, the stored handle is taken and
\* nothing panics; if the layout is dropped, the stored handle is taken,
\* nothing panics and no listing changes for it; if the layout is checked out
\* by a run, the operation panics, the Output stays in that layout's listing
\* and a panicking teardown does not free the state box
C33_RemoveCases ==
    [][\A c \in Cells :
          RemovesFromLayout(c) /\ lhandle[c] # NoLayout /\ ~lpanic[c] =>
              LET L == lhandle[c] IN
              /\ lstate[L] = "live" =>
                     /\ c \notin lmembers'[L]
                     /\ lhandle'[c] # L
                     /\ ~lpanic'[c]
              /\ lstate[L] = "dead" =>
                     /\ lmembers'[L] = lmembers[L]
                     /\ lhandle'[c] # L
                     /\ ~lpanic'[c]
              /\ lstate[L] = "busy" =>
                     /\ lpanic'[c]
                     /\ lhandle'[c] = NoLayout
                     /\ c \in lmembers[L] => c \in lmembers'[L]
                     /\ boxfreed'[c] = boxfreed[c]]_vars

\* C33 witness: the teardown of an Output panicked on a layout that is
\* checked out: the Output is gone, its state box was not freed, the
\* layout still lists it
C33_Witness ==
    \E c \in Cells :
        /\ lpanic[c]
        /\ strong[c] = 0
        /\ kind[c] = "output"
        /\ boxfreed[c] = 0
        /\ lhandle[c] = NoLayout
        /\ \E L \in ListedIn(c) : lstate[L] = "busy"
====
